---- MODULE Spec2Model ----
(***************************************************************************)
(* Model of github.com/thefabric-io/specifications: the specification      *)
(* tree (specification.go) and the PostgreSQL compiling visitor            *)
(* (postgres/visitor.go).                                                  *)
(*                                                                         *)
(* Text is a sequence of one-character strings, so that the rune scan of   *)
(* BuildQuery and strings.Join are modelled by what they do to the         *)
(* characters.  A specification node is a record of one shape; the         *)
(* visitor is a record of the fields of the Go struct.                     *)
(***************************************************************************)
EXTENDS Integers, Sequences, FiniteSets, TLC

\* ------------------------------------------------------------------------
\* Bounds of the model
\* ------------------------------------------------------------------------
\* nodes (leaves and And/Or nodes) a caller of Spec hands to one visitor
MaxNodes == 3
\* nodes a caller of SpecBool hands to one visitor
MaxBoolNodes == 5
\* nodes a caller of SpecPage hands to one visitor
MaxPageNodes == 3
\* nodes of the tree the goroutines of SpecShared traverse
MaxSharedNodes == 3
\* goroutines of SpecShared that traverse the one tree
Goroutines == 2
\* values of the longest In(...) a caller builds
MaxInValues == 3

\* ------------------------------------------------------------------------
\* Text
\* ------------------------------------------------------------------------
\* strings.Join(parts, sep)
RECURSIVE Join(_, _)
Join(parts, sep) ==
    IF Len(parts) = 0 THEN <<>>
    ELSE IF Len(parts) = 1 THEN parts[1]
    ELSE parts[1] \o sep \o Join(Tail(parts), sep)

\* the decimal digits of fmt's %d
Digit(d) == <<"0", "1", "2", "3", "4", "5", "6", "7", "8", "9">>[d + 1]

\* fmt.Sprintf("%d", n)
RECURSIVE Itoa(_)
Itoa(n) ==
    IF n < 0 THEN <<"-">> \o Itoa(-n)
    ELSE IF n < 10 THEN <<Digit(n)>>
    ELSE Itoa(n \div 10) \o <<Digit(n % 10)>>

SepAnd == <<" ", "A", "N", "D", " ">>
SepOr == <<" ", "O", "R", " ">>
SepComma == <<",", " ">>
KwWhere == <<" ", "W", "H", "E", "R", "E", " ">>
KwOrderBy == <<" ", "O", "R", "D", "E", "R", " ", "B", "Y", " ">>
KwLimit == <<" ", "L", "I", "M", "I", "T", " ">>
KwOffset == <<" ", "O", "F", "F", "S", "E", "T", " ">>
KwIn == <<" ", "I", "N", " ", "(">>
AlwaysFalse == <<"1", "=", "0">>

\* the operator texts of the comparison handlers, " <op> ?"
OpText(kind) ==
    CASE kind = "Equal" -> <<" ", "=", " ", "?">>
      [] kind = "NotEqual" -> <<" ", "<", ">", " ", "?">>
      [] kind = "GreaterThan" -> <<" ", ">", " ", "?">>
      [] kind = "LowerThan" -> <<" ", "<", " ", "?">>
      [] kind = "Like" -> <<" ", "L", "I", "K", "E", " ", "?">>
      [] kind = "GreaterThanOrEqual" -> <<" ", ">", "=", " ", "?">>
      [] kind = "LowerThanOrEqual" -> <<" ", "<", "=", " ", "?">>

\* ------------------------------------------------------------------------
\* Specification tree (specification.go)
\* ------------------------------------------------------------------------
CompKinds == {"Equal", "NotEqual", "GreaterThan", "LowerThan", "Like",
              "GreaterThanOrEqual", "LowerThanOrEqual"}

Node(kind, field, value, values, specs, n, direction) ==
    [kind |-> kind, field |-> field, value |-> value, values |-> values,
     specs |-> specs, n |-> n, direction |-> direction]

Comparison(kind, field, value) == Node(kind, field, value, <<>>, <<>>, 0, <<>>)
Equal(field, value) == Comparison("Equal", field, value)
NotEqual(field, value) == Comparison("NotEqual", field, value)
GreaterThan(field, value) == Comparison("GreaterThan", field, value)
LowerThan(field, value) == Comparison("LowerThan", field, value)
Like(field, value) == Comparison("Like", field, value)
GreaterThanOrEqual(field, value) == Comparison("GreaterThanOrEqual", field, value)
LowerThanOrEqual(field, value) == Comparison("LowerThanOrEqual", field, value)
In(field, values) == Node("In", field, 0, values, <<>>, 0, <<>>)
And(specs) == Node("And", <<>>, 0, <<>>, specs, 0, <<>>)
Or(specs) == Node("Or", <<>>, 0, <<>>, specs, 0, <<>>)
Limit(limit) == Node("Limit", <<>>, 0, <<>>, <<>>, limit, <<>>)
Offset(offset) == Node("Offset", <<>>, 0, <<>>, <<>>, offset, <<>>)
OrderBy(field, direction) == Node("Order", field, 0, <<>>, <<>>, 0, direction)

\* ------------------------------------------------------------------------
\* Visitor (postgres/visitor.go)
\* ------------------------------------------------------------------------
NewVisitor(fm) ==
    [conditions |-> <<>>, args |-> <<>>, fieldMap |-> fm,
     orderClauses |-> <<>>, limit |-> 0, offset |-> 0]

mapField(v, domainField) ==
    IF domainField \in DOMAIN v.fieldMap THEN v.fieldMap[domainField]
    ELSE domainField

\* VisitEqual, VisitNotEqual, VisitGreaterThan, VisitLowerThan, VisitLike,
\* VisitGreaterThanOrEqual, VisitLowerThanOrEqual: the same body with the
\* operator of the kind
VisitComparison(v, kind, field, value) ==
    [v EXCEPT !.conditions = Append(@, mapField(v, field) \o OpText(kind)),
              !.args = Append(@, value)]

VisitEqual(v, field, value) == VisitComparison(v, "Equal", field, value)
VisitNotEqual(v, field, value) == VisitComparison(v, "NotEqual", field, value)
VisitGreaterThan(v, field, value) == VisitComparison(v, "GreaterThan", field, value)
VisitLowerThan(v, field, value) == VisitComparison(v, "LowerThan", field, value)
VisitLike(v, field, value) == VisitComparison(v, "Like", field, value)
VisitGreaterThanOrEqual(v, field, value) ==
    VisitComparison(v, "GreaterThanOrEqual", field, value)
VisitLowerThanOrEqual(v, field, value) ==
    VisitComparison(v, "LowerThanOrEqual", field, value)

\* VisitIn with one placeholder for the whole list of values
VisitInOnePlaceholder(v, field, values) ==
    IF Len(values) = 0
    THEN [v EXCEPT !.conditions = Append(@, AlwaysFalse)]
    ELSE [v EXCEPT
            !.conditions = Append(@, mapField(v, field) \o KwIn \o <<"?", ")">>),
            !.args = @ \o values]

VisitIn(v, field, values) ==
    IF Len(values) = 0
    THEN [v EXCEPT !.conditions = Append(@, AlwaysFalse)]
    ELSE LET qs == [i \in 1..Len(values) |-> <<"?">>]
         IN [v EXCEPT
               !.conditions = Append(@, mapField(v, field) \o KwIn
                                         \o Join(qs, SepComma) \o <<")">>),
               !.args = @ \o values]

VisitLimit(v, limit) == [v EXCEPT !.limit = limit]

VisitOffset(v, offset) == [v EXCEPT !.offset = offset]

VisitOrder(v, field, direction) ==
    [v EXCEPT !.orderClauses = Append(@, mapField(v, field) \o <<" ">> \o direction)]

RECURSIVE Accept(_, _)

\* for _, s := range specs { s.Accept(subVisitor) }
RECURSIVE AcceptAll(_, _)
AcceptAll(v, specs) ==
    IF Len(specs) = 0 THEN v
    ELSE AcceptAll(Accept(v, specs[1]), Tail(specs))

\* MergeAnd with the limit and the offset of subVisitor taken as they are
MergeAndAlways(v, subVisitor) ==
    LET withConds ==
            IF Len(subVisitor.conditions) > 0
            THEN [v EXCEPT
                    !.conditions = Append(@, <<"(">> \o Join(subVisitor.conditions, SepAnd)
                                              \o <<")">>),
                    !.args = @ \o subVisitor.args]
            ELSE v
    IN [withConds EXCEPT
          !.orderClauses = @ \o subVisitor.orderClauses,
          !.limit = subVisitor.limit,
          !.offset = subVisitor.offset]

\* MergeAnd with the group appended whether or not subVisitor holds a
\* condition
MergeAndUnguarded(v, subVisitor) ==
    [v EXCEPT
       !.conditions = Append(@, <<"(">> \o Join(subVisitor.conditions, SepAnd) \o <<")">>),
       !.args = @ \o subVisitor.args,
       !.orderClauses = @ \o subVisitor.orderClauses,
       !.limit = IF subVisitor.limit > 0 THEN subVisitor.limit ELSE @,
       !.offset = IF subVisitor.offset > 0 THEN subVisitor.offset ELSE @]

\* VisitAnd after its loop: the conditions, arguments, order clauses,
\* limit and offset of subVisitor go to v
MergeAnd(v, subVisitor) ==
    LET withConds ==
            IF Len(subVisitor.conditions) > 0
            THEN [v EXCEPT
                    !.conditions = Append(@, <<"(">> \o Join(subVisitor.conditions, SepAnd)
                                              \o <<")">>),
                    !.args = @ \o subVisitor.args]
            ELSE v
    IN [withConds EXCEPT
          !.orderClauses = @ \o subVisitor.orderClauses,
          !.limit = IF subVisitor.limit > 0 THEN subVisitor.limit ELSE @,
          !.offset = IF subVisitor.offset > 0 THEN subVisitor.offset ELSE @]

VisitAnd(v, specs) == MergeAnd(v, AcceptAll(NewVisitor(v.fieldMap), specs))

\* the locals of VisitOr before its loop
OrLocals(v) == [subVisitor |-> NewVisitor(v.fieldMap), orParts |-> <<>>]

\* OrStep with the first positive limit and offset kept
OrStepFirstWins(locals, temp) ==
    LET has == Len(temp.conditions) > 0
    IN [orParts |->
          IF has
          THEN Append(locals.orParts, <<"(">> \o Join(temp.conditions, SepAnd) \o <<")">>)
          ELSE locals.orParts,
        subVisitor |->
          [locals.subVisitor EXCEPT
             !.args = IF has THEN @ \o temp.args ELSE @,
             !.orderClauses = @ \o temp.orderClauses,
             !.limit = IF temp.limit > 0 /\ @ = 0 THEN temp.limit ELSE @,
             !.offset = IF temp.offset > 0 /\ @ = 0 THEN temp.offset ELSE @]]

\* OrStep with the branch not put in parentheses
OrStepBare(locals, temp) ==
    LET has == Len(temp.conditions) > 0
    IN [orParts |->
          IF has
          THEN Append(locals.orParts, Join(temp.conditions, SepAnd))
          ELSE locals.orParts,
        subVisitor |->
          [locals.subVisitor EXCEPT
             !.args = IF has THEN @ \o temp.args ELSE @,
             !.orderClauses = @ \o temp.orderClauses,
             !.limit = IF temp.limit > 0 THEN temp.limit ELSE @,
             !.offset = IF temp.offset > 0 THEN temp.offset ELSE @]]

\* the body of the loop of VisitOr after s.Accept(temp): temp goes to the
\* locals subVisitor and orParts
OrStep(locals, temp) ==
    LET has == Len(temp.conditions) > 0
    IN [orParts |->
          IF has
          THEN Append(locals.orParts, <<"(">> \o Join(temp.conditions, SepAnd) \o <<")">>)
          ELSE locals.orParts,
        subVisitor |->
          [locals.subVisitor EXCEPT
             !.args = IF has THEN @ \o temp.args ELSE @,
             !.orderClauses = @ \o temp.orderClauses,
             !.limit = IF temp.limit > 0 THEN temp.limit ELSE @,
             !.offset = IF temp.offset > 0 THEN temp.offset ELSE @]]

\* the loop of VisitOr: each child is accepted into a visitor of its own
RECURSIVE OrLoop(_, _)
OrLoop(locals, specs) ==
    IF Len(specs) = 0 THEN locals
    ELSE OrLoop(OrStep(locals, Accept(NewVisitor(locals.subVisitor.fieldMap), specs[1])),
                Tail(specs))

\* VisitOr after its loop
MergeOr(v, locals) ==
    LET subVisitor == locals.subVisitor
        withConds ==
            IF Len(locals.orParts) > 0
            THEN [v EXCEPT
                    !.conditions = Append(@, <<"(">> \o Join(locals.orParts, SepOr)
                                              \o <<")">>),
                    !.args = @ \o subVisitor.args]
            ELSE v
    IN [withConds EXCEPT
          !.orderClauses = @ \o subVisitor.orderClauses,
          !.limit = IF subVisitor.limit > 0 THEN subVisitor.limit ELSE @,
          !.offset = IF subVisitor.offset > 0 THEN subVisitor.offset ELSE @]

VisitOr(v, specs) == MergeOr(v, OrLoop(OrLocals(v), specs))

\* the Accept methods of the node kinds: each calls the handler of its
\* kind with its payload
Accept(v, s) ==
    CASE s.kind = "Equal" -> VisitEqual(v, s.field, s.value)
      [] s.kind = "NotEqual" -> VisitNotEqual(v, s.field, s.value)
      [] s.kind = "GreaterThan" -> VisitGreaterThan(v, s.field, s.value)
      [] s.kind = "LowerThan" -> VisitLowerThan(v, s.field, s.value)
      [] s.kind = "Like" -> VisitLike(v, s.field, s.value)
      [] s.kind = "GreaterThanOrEqual" -> VisitGreaterThanOrEqual(v, s.field, s.value)
      [] s.kind = "LowerThanOrEqual" -> VisitLowerThanOrEqual(v, s.field, s.value)
      [] s.kind = "In" -> VisitIn(v, s.field, s.values)
      [] s.kind = "And" -> VisitAnd(v, s.specs)
      [] s.kind = "Or" -> VisitOr(v, s.specs)
      [] s.kind = "Limit" -> VisitLimit(v, s.n)
      [] s.kind = "Offset" -> VisitOffset(v, s.n)
      [] s.kind = "Order" -> VisitOrder(v, s.field, s.direction)

\* the rune loop of BuildQuery over fullCondition, from rune i on, with
\* the current argIndex
RECURSIVE Renumber(_, _, _)
Renumber(fullCondition, i, argIndex) ==
    IF i > Len(fullCondition) THEN <<>>
    ELSE IF fullCondition[i] = "?"
         THEN <<"$">> \o Itoa(argIndex) \o Renumber(fullCondition, i + 1, argIndex + 1)
         ELSE <<fullCondition[i]>> \o Renumber(fullCondition, i + 1, argIndex)

\* BuildQuery with the WHERE clause written whether or not there is a
\* condition
BuildQueryAlwaysWhere(v, baseQuery) ==
    LET q1 == baseQuery \o KwWhere \o Renumber(Join(v.conditions, SepAnd), 1, 1)
        q2 == IF Len(v.orderClauses) > 0
              THEN q1 \o KwOrderBy \o Join(v.orderClauses, SepComma)
              ELSE q1
        q3 == IF v.limit > 0 THEN q2 \o KwLimit \o Itoa(v.limit) ELSE q2
        q4 == IF v.offset > 0 THEN q3 \o KwOffset \o Itoa(v.offset) ELSE q3
    IN [query |-> q4, args |-> v.args]

BuildQuery(v, baseQuery) ==
    LET q1 == IF Len(v.conditions) > 0
              THEN baseQuery \o KwWhere \o Renumber(Join(v.conditions, SepAnd), 1, 1)
              ELSE baseQuery
        q2 == IF Len(v.orderClauses) > 0
              THEN q1 \o KwOrderBy \o Join(v.orderClauses, SepComma)
              ELSE q1
        q3 == IF v.limit > 0 THEN q2 \o KwLimit \o Itoa(v.limit) ELSE q2
        q4 == IF v.offset > 0 THEN q3 \o KwOffset \o Itoa(v.offset) ELSE q3
    IN [query |-> q4, args |-> v.args]

\* ------------------------------------------------------------------------
\* The callers' inputs: field names, translation tables, trees
\* ------------------------------------------------------------------------
FieldA == <<"a">>
FieldB == <<"b">>
FieldC == <<"c">>
\* a logical name that holds the rune '?'
FieldQ == <<"q", "?">>

\* the translation tables a repository is constructed with: none, one that
\* maps a only, one that maps both a and q?
NoTable == [f \in {} |-> <<>>]
TableA == [f \in {FieldA} |-> <<"i", "d">>]
TableAQ == [f \in {FieldA, FieldQ} |-> IF f = FieldA THEN <<"i", "d">> ELSE <<"q">>]

BaseQuery == <<"S", "E", "L", "E", "C", "T", " ", "*", " ", "F", "R", "O", "M", " ", "t">>

Asc == <<"A", "S", "C">>
Desc == <<"D", "E", "S", "C">>

\* the values 1..n, in order
FirstValues(n) == [i \in 1..n |-> i]

\* leaves of the callers of Spec: every node kind, fields in and out of the
\* table, with and without '?'
Leaves ==
    {Equal(FieldA, 1), Equal(FieldQ, 2)}
    \cup {Comparison(k, FieldA, 1) : k \in CompKinds \ {"Equal"}}
    \cup {In(FieldA, <<>>), In(FieldA, FirstValues(MaxInValues)), In(FieldQ, <<1>>)}
    \cup {Limit(10), Offset(20), OrderBy(FieldA, Asc)}

\* the caller of SpecBool composes equalities: the k-th equality it hands to
\* the visitor, in depth-first order, tests the k-th field against k
FieldNames == <<FieldA, FieldB, FieldC, <<"d">>, <<"e">>, <<"f">>, <<"g">>, <<"h">>>>
BoolLeaves == {Equal(<<>>, 0)}

\* leaves of the callers of SpecPage: ordering and pagination next to one
\* condition
PageLeaves ==
    {Limit(n) : n \in {0, 5, 10, 20}}
    \cup {Offset(n) : n \in {0, 7}}
    \cup {OrderBy(FieldA, Asc), OrderBy(FieldB, Desc), Equal(FieldA, 1)}

\* the trees over the leaves L by number of nodes: T[n] is the set of the
\* trees of exactly n nodes and F[m + 1] the set of the sequences of trees
\* of m nodes in all; GrowTrees adds T[n] to the table of the sizes below n
\* and GrowForests the sequences of n nodes, up to the trees of N nodes
RECURSIVE GrowTrees(_, _, _, _, _), GrowForests(_, _, _, _, _)
GrowTrees(L, T, F, n, N) ==
    IF n > N THEN T
    ELSE GrowForests(L,
                     Append(T, IF n = 1 THEN L \cup {And(<<>>), Or(<<>>)}
                               ELSE {And(f) : f \in F[n]} \cup {Or(f) : f \in F[n]}),
                     F, n, N)

GrowForests(L, T, F, n, N) ==
    IF n >= N THEN T
    ELSE GrowTrees(L, T,
                   Append(F, UNION {{<<s>> \o f : s \in T[k], f \in F[n - k + 1]}
                                    : k \in 1..n}),
                   n + 1, N)

TreesBySize(L, N) == GrowTrees(L, <<>>, <<{<<>>}>>, 1, N)

Universe == TreesBySize(Leaves, MaxNodes)
BoolUniverse == TreesBySize(BoolLeaves, MaxBoolNodes)
PageUniverse == TreesBySize(PageLeaves, MaxPageNodes)

\* leaves of the tree the goroutines of SpecShared traverse
SharedLeaves == {Equal(FieldA, 1), Limit(10)}
SharedUniverse == TreesBySize(SharedLeaves, MaxSharedNodes)

\* a tree, a sequence of trees, of the caller of SpecBool: the equalities
\* from the k-th on, in depth-first order; the result holds the tree and
\* the index of the next equality
RECURSIVE NameTree(_, _), NameAll(_, _)
NameTree(s, k) ==
    IF s.kind = "Equal" THEN [spec |-> Equal(FieldNames[k], k), k |-> k + 1]
    ELSE LET r == NameAll(s.specs, k)
         IN [spec |-> [s EXCEPT !.specs = r.specs], k |-> r.k]

NameAll(specs, k) ==
    IF Len(specs) = 0 THEN [specs |-> <<>>, k |-> k]
    ELSE LET first == NameTree(specs[1], k)
             rest == NameAll(Tail(specs), first.k)
         IN [specs |-> <<first.spec>> \o rest.specs, k |-> rest.k]

\* the number of nodes of a tree, of a sequence of trees
RECURSIVE Size(_), SizeAll(_)
Size(s) == 1 + SizeAll(s.specs)

SizeAll(specs) == IF Len(specs) = 0 THEN 0 ELSE Size(specs[1]) + SizeAll(Tail(specs))

\* ------------------------------------------------------------------------
\* State: one repository call (README, productRepository.Load)
\* ------------------------------------------------------------------------
VARIABLES
    v,         \* the visitor of the call
    visited,   \* the specifications accepted into v so far, in order
    pc,        \* "visiting" until BuildQuery has returned, then "built"
    query,     \* the query text BuildQuery returned
    args       \* the argument list BuildQuery returned

\* State: several calls of Load at once, on goroutines of their own, with
\* one tree (SpecShared).  The Visitor objects live on one heap and are
\* known by their addresses, as the *Visitor of the code are.
VARIABLES
    shared,    \* the tree every goroutine was handed
    heap,      \* the Visitor objects allocated so far, by address
    stack,     \* per goroutine, its frames of Load, VisitAnd and VisitOr
    status,    \* per goroutine, "idle", "running" or "done"
    out        \* per goroutine, what BuildQuery returned to it

callVars == <<v, visited, pc, query, args>>
sharedVars == <<shared, heap, stack, status, out>>
vars == <<v, visited, pc, query, args, shared, heap, stack, status, out>>

G == 1..Goroutines

\* no goroutine runs
NoGoroutines ==
    /\ shared = And(<<>>)
    /\ heap = <<>>
    /\ stack = [g \in G |-> <<>>]
    /\ status = [g \in G |-> "idle"]
    /\ out = [g \in G |-> [query |-> <<>>, args |-> <<>>]]

\* visitor := postgres.NewVisitor(r.fieldMap), for a repository with one of
\* the tables
Load(tables) ==
    /\ v \in {NewVisitor(fm) : fm \in tables}
    /\ visited = <<>>
    /\ pc = "visiting"
    /\ query = <<>>
    /\ args = <<>>
    /\ NoGoroutines

Init == Load({NoTable, TableAQ})

\* s.Accept(visitor) for a tree s of the given kind, out of the universe U
\* of a caller that hands at most N nodes to the visitor
AcceptKind(U, N, kind) ==
    /\ pc = "visiting"
    /\ \E k \in 1..(N - SizeAll(visited)) :
         \E s \in U[k] :
            /\ s.kind = kind
            /\ v' = Accept(v, s)
            /\ visited' = Append(visited, s)
    /\ UNCHANGED <<pc, query, args>>
    /\ UNCHANGED sharedVars

\* query, args := visitor.BuildQuery(baseQuery)
DoBuildQuery ==
    /\ pc = "visiting"
    /\ LET r == BuildQuery(v, BaseQuery)
       IN /\ query' = r.query
          /\ args' = r.args
    /\ pc' = "built"
    /\ UNCHANGED <<v, visited>>
    /\ UNCHANGED sharedVars

AcceptEqual == AcceptKind(Universe, MaxNodes, "Equal")
AcceptNotEqual == AcceptKind(Universe, MaxNodes, "NotEqual")
AcceptGreaterThan == AcceptKind(Universe, MaxNodes, "GreaterThan")
AcceptLowerThan == AcceptKind(Universe, MaxNodes, "LowerThan")
AcceptLike == AcceptKind(Universe, MaxNodes, "Like")
AcceptGreaterThanOrEqual == AcceptKind(Universe, MaxNodes, "GreaterThanOrEqual")
AcceptLowerThanOrEqual == AcceptKind(Universe, MaxNodes, "LowerThanOrEqual")
AcceptIn == AcceptKind(Universe, MaxNodes, "In")
AcceptAnd == AcceptKind(Universe, MaxNodes, "And")
AcceptOr == AcceptKind(Universe, MaxNodes, "Or")
AcceptLimit == AcceptKind(Universe, MaxNodes, "Limit")
AcceptOffset == AcceptKind(Universe, MaxNodes, "Offset")
AcceptOrder == AcceptKind(Universe, MaxNodes, "Order")

Next ==
    \/ AcceptEqual
    \/ AcceptNotEqual
    \/ AcceptGreaterThan
    \/ AcceptLowerThan
    \/ AcceptLike
    \/ AcceptGreaterThanOrEqual
    \/ AcceptLowerThanOrEqual
    \/ AcceptIn
    \/ AcceptAnd
    \/ AcceptOr
    \/ AcceptLimit
    \/ AcceptOffset
    \/ AcceptOrder
    \/ DoBuildQuery

Spec == Init /\ [][Next]_vars

\* boolean composition of equalities: s.Accept(visitor) for the next tree
\* of the caller of SpecBool
BoolAcceptKind(kind) ==
    /\ pc = "visiting"
    /\ \E k \in 1..(MaxBoolNodes - SizeAll(visited)) :
         \E shape \in BoolUniverse[k] :
            LET s == NameTree(shape, NameAll(visited, 1).k).spec
            IN /\ s.kind = kind
               /\ NameAll(visited, 1).k + k - 1 <= Len(FieldNames)
               /\ v' = Accept(v, s)
               /\ visited' = Append(visited, s)
    /\ UNCHANGED <<pc, query, args>>
    /\ UNCHANGED sharedVars

BoolAcceptEqual == BoolAcceptKind("Equal")
BoolAcceptAnd == BoolAcceptKind("And")
BoolAcceptOr == BoolAcceptKind("Or")

NextBool ==
    \/ BoolAcceptEqual
    \/ BoolAcceptAnd
    \/ BoolAcceptOr
    \/ DoBuildQuery

InitBool == Load({TableA})

SpecBool == InitBool /\ [][NextBool]_vars

\* ordering and pagination
PageAcceptEqual == AcceptKind(PageUniverse, MaxPageNodes, "Equal")
PageAcceptAnd == AcceptKind(PageUniverse, MaxPageNodes, "And")
PageAcceptOr == AcceptKind(PageUniverse, MaxPageNodes, "Or")
PageAcceptLimit == AcceptKind(PageUniverse, MaxPageNodes, "Limit")
PageAcceptOffset == AcceptKind(PageUniverse, MaxPageNodes, "Offset")
PageAcceptOrder == AcceptKind(PageUniverse, MaxPageNodes, "Order")

NextPage ==
    \/ PageAcceptEqual
    \/ PageAcceptAnd
    \/ PageAcceptOr
    \/ PageAcceptLimit
    \/ PageAcceptOffset
    \/ PageAcceptOrder
    \/ DoBuildQuery

InitPage == Load({TableA})

SpecPage == InitPage /\ [][NextPage]_vars

\* ------------------------------------------------------------------------
\* Goroutines that traverse one tree
\* ------------------------------------------------------------------------
\* NewVisitor that hands out one package-level Visitor again and again
AllocateReused(h) == 1

\* &Visitor{...}: the address of a newly allocated object
Allocate(h) == Len(h) + 1

\* the heap with the object x at the address a
Store(h, a, x) == IF a = Len(h) + 1 THEN Append(h, x) ELSE [h EXCEPT ![a] = x]

Frame(fn, specs, recv, sub, phase) ==
    [fn |-> fn, specs |-> specs, i |-> 1, recv |-> recv, sub |-> sub, temp |-> 0,
     orParts |-> <<>>, phase |-> phase]

Top(g) == stack[g][Len(stack[g])]

SetTop(g, f) == [stack EXCEPT ![g] = [@ EXCEPT ![Len(@)] = f]]

\* the visitor the frame hands to the Accept of its next child
Target(f) ==
    IF f.fn = "VisitOr" THEN f.temp
    ELSE IF f.fn = "VisitAnd" THEN f.sub
    ELSE f.recv

\* the frame is about to call Accept on its child i
AtAccept(f) ==
    /\ f.i <= Len(f.specs)
    /\ f.fn = "VisitOr" => f.phase = "accept"

\* the frame after the Accept of its child has returned
AfterAccept(f) ==
    IF f.fn = "VisitOr" THEN [f EXCEPT !.phase = "merge"]
    ELSE [f EXCEPT !.i = @ + 1]

\* the stack after the top frame has returned to its caller
Returned(g) ==
    LET rest == SubSeq(stack[g], 1, Len(stack[g]) - 1)
    IN [stack EXCEPT ![g] = [rest EXCEPT ![Len(rest)] = AfterAccept(@)]]

\* visitor := postgres.NewVisitor(r.fieldMap)
GoNewVisitor(g) ==
    /\ status[g] = "idle"
    /\ LET a == Allocate(heap)
       IN /\ heap' = Store(heap, a, NewVisitor(TableA))
          /\ stack' = [stack EXCEPT ![g] = <<Frame("Load", <<shared>>, a, 0, "accept")>>]
    /\ status' = [status EXCEPT ![g] = "running"]
    /\ UNCHANGED <<shared, out>>
    /\ UNCHANGED callVars

\* s.Accept(visitor) of a leaf: the handler of its kind runs to its end
GoAcceptLeaf(g) ==
    /\ status[g] = "running"
    /\ AtAccept(Top(g))
    /\ LET f == Top(g)
           s == f.specs[f.i]
       IN /\ s.kind \notin {"And", "Or"}
          /\ heap' = [heap EXCEPT ![Target(f)] = Accept(@, s)]
          /\ stack' = SetTop(g, AfterAccept(f))
    /\ UNCHANGED <<shared, status, out>>
    /\ UNCHANGED callVars

\* VisitAnd up to its loop: subVisitor := NewVisitor(v.fieldMap)
GoVisitAnd(g) ==
    /\ status[g] = "running"
    /\ AtAccept(Top(g))
    /\ LET f == Top(g)
           s == f.specs[f.i]
           a == Allocate(heap)
       IN /\ s.kind = "And"
          /\ heap' = Store(heap, a, NewVisitor(heap[Target(f)].fieldMap))
          /\ stack' = [stack EXCEPT ![g] =
                         Append(@, Frame("VisitAnd", s.specs, Target(f), a, "accept"))]
    /\ UNCHANGED <<shared, status, out>>
    /\ UNCHANGED callVars

\* VisitAnd after its loop
GoReturnAnd(g) ==
    /\ status[g] = "running"
    /\ LET f == Top(g)
       IN /\ f.fn = "VisitAnd"
          /\ f.i > Len(f.specs)
          /\ heap' = [heap EXCEPT ![f.recv] = MergeAnd(@, heap[f.sub])]
          /\ stack' = Returned(g)
    /\ UNCHANGED <<shared, status, out>>
    /\ UNCHANGED callVars

\* VisitOr up to its loop: subVisitor := NewVisitor(v.fieldMap)
GoVisitOr(g) ==
    /\ status[g] = "running"
    /\ AtAccept(Top(g))
    /\ LET f == Top(g)
           s == f.specs[f.i]
           a == Allocate(heap)
       IN /\ s.kind = "Or"
          /\ heap' = Store(heap, a, NewVisitor(heap[Target(f)].fieldMap))
          /\ stack' = [stack EXCEPT ![g] =
                         Append(@, Frame("VisitOr", s.specs, Target(f), a, "new"))]
    /\ UNCHANGED <<shared, status, out>>
    /\ UNCHANGED callVars

\* the loop of VisitOr: temp := NewVisitor(v.fieldMap)
GoOrNewTemp(g) ==
    /\ status[g] = "running"
    /\ LET f == Top(g)
           a == Allocate(heap)
       IN /\ f.fn = "VisitOr"
          /\ f.phase = "new"
          /\ f.i <= Len(f.specs)
          /\ heap' = Store(heap, a, NewVisitor(heap[f.recv].fieldMap))
          /\ stack' = SetTop(g, [f EXCEPT !.temp = a, !.phase = "accept"])
    /\ UNCHANGED <<shared, status, out>>
    /\ UNCHANGED callVars

\* the loop of VisitOr after s.Accept(temp)
GoOrStep(g) ==
    /\ status[g] = "running"
    /\ LET f == Top(g)
           r == OrStep([subVisitor |-> heap[f.sub], orParts |-> f.orParts], heap[f.temp])
       IN /\ f.fn = "VisitOr"
          /\ f.phase = "merge"
          /\ heap' = [heap EXCEPT ![f.sub] = r.subVisitor]
          /\ stack' = SetTop(g, [f EXCEPT !.orParts = r.orParts, !.temp = 0,
                                           !.phase = "new", !.i = @ + 1])
    /\ UNCHANGED <<shared, status, out>>
    /\ UNCHANGED callVars

\* VisitOr after its loop
GoReturnOr(g) ==
    /\ status[g] = "running"
    /\ LET f == Top(g)
       IN /\ f.fn = "VisitOr"
          /\ f.phase = "new"
          /\ f.i > Len(f.specs)
          /\ heap' = [heap EXCEPT ![f.recv] =
                        MergeOr(@, [subVisitor |-> heap[f.sub], orParts |-> f.orParts])]
          /\ stack' = Returned(g)
    /\ UNCHANGED <<shared, status, out>>
    /\ UNCHANGED callVars

\* query, args := visitor.BuildQuery(baseQuery)
GoBuildQuery(g) ==
    /\ status[g] = "running"
    /\ LET f == Top(g)
       IN /\ f.fn = "Load"
          /\ f.i > Len(f.specs)
          /\ out' = [out EXCEPT ![g] = BuildQuery(heap[f.recv], BaseQuery)]
    /\ stack' = [stack EXCEPT ![g] = <<>>]
    /\ status' = [status EXCEPT ![g] = "done"]
    /\ UNCHANGED <<shared, heap>>
    /\ UNCHANGED callVars

InitShared ==
    /\ v = NewVisitor(TableA)
    /\ visited = <<>>
    /\ pc = "visiting"
    /\ query = <<>>
    /\ args = <<>>
    /\ shared \in UNION {SharedUniverse[k] : k \in 1..MaxSharedNodes}
    /\ heap = <<>>
    /\ stack = [g \in G |-> <<>>]
    /\ status = [g \in G |-> "idle"]
    /\ out = [g \in G |-> [query |-> <<>>, args |-> <<>>]]

NextShared ==
    \E g \in G :
        \/ GoNewVisitor(g)
        \/ GoAcceptLeaf(g)
        \/ GoVisitAnd(g)
        \/ GoReturnAnd(g)
        \/ GoVisitOr(g)
        \/ GoOrNewTemp(g)
        \/ GoOrStep(g)
        \/ GoReturnOr(g)
        \/ GoBuildQuery(g)

SpecShared == InitShared /\ [][NextShared]_vars

\* ------------------------------------------------------------------------
\* What the properties speak of: the tree as the caller wrote it, and the
\* text as the database reads it
\* ------------------------------------------------------------------------
\* <mapped f>: the entry of the table for f, f itself when it has none
Mapped(fm, f) == IF f \in DOMAIN fm THEN fm[f] ELSE f

\* the occurrences of the character c in a text
Count(text, c) == Cardinality({i \in 1..Len(text) : text[i] = c})

\* pat stands in text at position i
StandsAt(text, i, pat) ==
    /\ i >= 1
    /\ i + Len(pat) - 1 <= Len(text)
    /\ SubSeq(text, i, i + Len(pat) - 1) = pat

\* pat stands somewhere in text
Holds(text, pat) == \E i \in 1..Len(text) : StandsAt(text, i, pat)

Digits == {"0", "1", "2", "3", "4", "5", "6", "7", "8", "9"}

DigitValue(c) == CHOOSE d \in 0..9 : Digit(d) = c

\* the decimal number that starts at position i of text, read as the
\* database reads a positional marker: n is the number read so far
RECURSIVE ReadNumber(_, _, _)
ReadNumber(text, i, n) ==
    IF i <= Len(text) /\ text[i] \in Digits
    THEN ReadNumber(text, i + 1, 10 * n + DigitValue(text[i]))
    ELSE [n |-> n, next |-> i]

\* the numbers of the positional markers $k of a text, in order of appearance
RECURSIVE MarkersFrom(_, _)
MarkersFrom(text, i) ==
    IF i > Len(text) THEN <<>>
    ELSE IF text[i] = "$"
         THEN LET r == ReadNumber(text, i + 1, 0)
              IN <<r.n>> \o MarkersFrom(text, r.next)
         ELSE MarkersFrom(text, i + 1)

Markers(text) == MarkersFrom(text, 1)

\* the text has a WHERE clause after the base query
HasWhere(text) == StandsAt(text, Len(BaseQuery) + 1, KwWhere)

\* "$1, $2, ..., $n"
MarkerList(n) == Join([i \in 1..n |-> <<"$">> \o Itoa(i)], SepComma)

\* the values the leaves of a tree carry, in depth-first, left-to-right order
RECURSIVE ValuesOf(_), ValuesOfAll(_)
ValuesOf(s) ==
    IF s.kind \in CompKinds THEN <<s.value>>
    ELSE IF s.kind = "In" THEN s.values
    ELSE ValuesOfAll(s.specs)

ValuesOfAll(specs) ==
    IF Len(specs) = 0 THEN <<>> ELSE ValuesOf(specs[1]) \o ValuesOfAll(Tail(specs))

\* the value-producing leaf nodes of a tree: the comparisons and the In
\* nodes that carry a value
RECURSIVE ValueLeaves(_), ValueLeavesAll(_)
ValueLeaves(s) ==
    IF s.kind \in CompKinds THEN 1
    ELSE IF s.kind = "In" THEN (IF Len(s.values) > 0 THEN 1 ELSE 0)
    ELSE ValueLeavesAll(s.specs)

ValueLeavesAll(specs) ==
    IF Len(specs) = 0 THEN 0 ELSE ValueLeaves(specs[1]) + ValueLeavesAll(Tail(specs))

\* the '?' that the mapped field names of the conditions of a tree hold
RECURSIVE FieldMarks(_, _), FieldMarksAll(_, _)
FieldMarks(fm, s) ==
    IF s.kind \in CompKinds THEN Count(Mapped(fm, s.field), "?")
    ELSE IF s.kind = "In"
         THEN (IF Len(s.values) > 0 THEN Count(Mapped(fm, s.field), "?") ELSE 0)
    ELSE FieldMarksAll(fm, s.specs)

FieldMarksAll(fm, specs) ==
    IF Len(specs) = 0 THEN 0
    ELSE FieldMarks(fm, specs[1]) + FieldMarksAll(fm, Tail(specs))

\* the tree holds a condition-producing leaf: a comparison or an In node
RECURSIVE HasCond(_)
HasCond(s) ==
    \/ s.kind \in CompKinds \cup {"In"}
    \/ \E i \in 1..Len(s.specs) : HasCond(s.specs[i])

HasCondAll(specs) == \E i \in 1..Len(specs) : HasCond(specs[i])

\* the order-by clauses of a tree, in depth-first, left-to-right order
RECURSIVE OrdersOf(_, _), OrdersOfAll(_, _)
OrdersOf(fm, s) ==
    IF s.kind = "Order" THEN <<Mapped(fm, s.field) \o <<" ">> \o s.direction>>
    ELSE OrdersOfAll(fm, s.specs)

OrdersOfAll(fm, specs) ==
    IF Len(specs) = 0 THEN <<>>
    ELSE OrdersOf(fm, specs[1]) \o OrdersOfAll(fm, Tail(specs))

Built == pc = "built"

\* ------------------------------------------------------------------------
\* C9
\* ------------------------------------------------------------------------
\* C9: with nothing visited into a fresh Visitor, BuildQuery(base) returns
\* the base query unchanged, with no WHERE, ORDER BY, LIMIT or OFFSET tail,
\* and an empty argument list.
C9_NilSpecGivesBaseQuery ==
    (Built /\ visited = <<>>) => (query = BaseQuery /\ args = <<>>)

C9_Witness == Built /\ visited = <<>> /\ query = BaseQuery

\* ------------------------------------------------------------------------
\* C8
\* ------------------------------------------------------------------------
\* C8: for all fields f, values x and tables, Equal(f, x) alone compiles to
\* exactly "<base> WHERE <mapped f> = $1" with the argument list [x].
C8_EqualAlone ==
    \A f \in {FieldA, FieldQ}, x \in {1, 2} :
        (Built /\ visited = <<Equal(f, x)>>)
            => /\ query = BaseQuery \o KwWhere \o Mapped(v.fieldMap, f)
                            \o <<" ", "=", " ", "$", "1">>
               /\ args = <<x>>

\* ------------------------------------------------------------------------
\* C1
\* ------------------------------------------------------------------------
\* C1: for every tree, field names and table, the markers of the assembled
\* WHERE clause are exactly $1..$n in order of appearance with n the length
\* of the argument list, the arguments are the values of the leaves in
\* left-to-right order, and at every step the accumulator holds as many '?'
\* in its joined conditions as it holds arguments.
C1_MarkersMatchArgs ==
    /\ Count(Join(v.conditions, SepAnd), "?") = Len(v.args)
    /\ v.args = ValuesOfAll(visited)
    /\ Built => /\ Markers(query) = FirstValues(Len(args))
                /\ args = ValuesOfAll(visited)

\* ------------------------------------------------------------------------
\* C5
\* ------------------------------------------------------------------------
\* C5: In with no value compiles to the always-false fragment, adds no
\* argument and takes no placeholder; In(f, x1..xn) alone, n >= 1, compiles
\* to "<mapped f> IN ($1, ..., $n)" with the arguments [x1..xn].
C5_InAlone ==
    \A f \in {FieldA, FieldQ}, n \in 0..MaxInValues :
        (Built /\ visited = <<In(f, FirstValues(n))>>)
            => IF n = 0
               THEN query = BaseQuery \o KwWhere \o AlwaysFalse /\ args = <<>>
               ELSE /\ query = BaseQuery \o KwWhere \o Mapped(v.fieldMap, f)
                                 \o KwIn \o MarkerList(n) \o <<")">>
                    /\ args = FirstValues(n)

CondSpecs(specs) == {i \in 1..Len(specs) : HasCond(specs[i])}

\* the " OR " separators a tree puts into the conditions: each Or node one
\* less than its condition-producing children
RECURSIVE OrSeparators(_), OrSeparatorsAll(_)
OrSeparators(s) ==
    OrSeparatorsAll(s.specs)
    + (IF s.kind = "Or" /\ CondSpecs(s.specs) # {}
       THEN Cardinality(CondSpecs(s.specs)) - 1 ELSE 0)

OrSeparatorsAll(specs) ==
    IF Len(specs) = 0 THEN 0 ELSE OrSeparators(specs[1]) + OrSeparatorsAll(Tail(specs))

\* the places of a text where pat stands
Places(text, pat) == {i \in 1..Len(text) : StandsAt(text, i, pat)}

\* C10: no empty boolean group is emitted.  An And or Or without a
\* condition-producing leaf below it gives its parent no fragment and no
\* argument, an Or child without a condition gives no OR branch, the query
\* has a WHERE clause exactly when the tree holds a condition-producing
\* leaf, and the order-by, limit and offset of such a sub-tree still go up.
C10_NoEmptyGroup ==
    /\ Len(v.conditions) = Cardinality(CondSpecs(visited))
    /\ \A i \in 1..Len(v.conditions) : ~Holds(v.conditions[i], <<"(", ")">>)
    /\ Cardinality(Places(Join(v.conditions, SepAnd), SepOr)) = OrSeparatorsAll(visited)
    /\ v.args = ValuesOfAll(visited)
    /\ v.orderClauses = OrdersOfAll(v.fieldMap, visited)
    /\ \A g \in {"And", "Or"} :
         visited = <<Node(g, <<>>, 0, <<>>, <<Limit(10), OrderBy(FieldA, Asc)>>, 0, <<>>)>>
            => v.limit = 10 /\ v.conditions = <<>> /\ Len(v.orderClauses) = 1
    /\ \A g \in {"And", "Or"} :
         visited = <<Node(g, <<>>, 0, <<>>, <<Offset(20)>>, 0, <<>>)>>
            => v.offset = 20 /\ v.conditions = <<>>
    /\ Built => (HasWhere(query) <=> HasCondAll(visited))

C10_Witness ==
    /\ Built
    /\ visited = <<And(<<Limit(10), OrderBy(FieldA, Asc)>>)>>
    /\ ~HasWhere(query)
    /\ v.limit = 10

\* ------------------------------------------------------------------------
\* C4
\* ------------------------------------------------------------------------
\* the fragment a tree with a condition-producing leaf gives its parent,
\* with the generic placeholder, and the fragments of a sequence of trees
RECURSIVE Fragment(_, _), Fragments(_, _), Branches(_, _)
Fragment(fm, s) ==
    IF s.kind \in CompKinds THEN Mapped(fm, s.field) \o OpText(s.kind)
    ELSE IF s.kind = "In"
         THEN (IF Len(s.values) = 0 THEN AlwaysFalse
               ELSE Mapped(fm, s.field) \o KwIn
                    \o Join([i \in 1..Len(s.values) |-> <<"?">>], SepComma) \o <<")">>)
    ELSE IF s.kind = "And"
         THEN <<"(">> \o Join(Fragments(fm, s.specs), SepAnd) \o <<")">>
    ELSE <<"(">> \o Join(Branches(fm, s.specs), SepOr) \o <<")">>

Fragments(fm, specs) ==
    IF Len(specs) = 0 THEN <<>>
    ELSE (IF HasCond(specs[1]) THEN <<Fragment(fm, specs[1])>> ELSE <<>>)
         \o Fragments(fm, Tail(specs))

Branches(fm, specs) ==
    IF Len(specs) = 0 THEN <<>>
    ELSE (IF HasCond(specs[1]) THEN <<<<"(">> \o Fragment(fm, specs[1]) \o <<")">>>>
          ELSE <<>>)
         \o Branches(fm, Tail(specs))

\* And(Equal("a",1), Or(Equal("b",2), Equal("c",3)))
C4_Example == And(<<Equal(FieldA, 1), Or(<<Equal(FieldB, 2), Equal(FieldC, 3)>>)>>)

\* " WHERE (<a> = $1 AND ((b = $2) OR (c = $3)))"
C4_ExampleWhere(fm) ==
    KwWhere \o <<"(">> \o Mapped(fm, FieldA) \o <<" ", "=", " ", "$", "1">> \o SepAnd
    \o <<"(", "(", "b", " ", "=", " ", "$", "2", ")">> \o SepOr
    \o <<"(", "c", " ", "=", " ", "$", "3", ")", ")", ")">>

\* C4: boolean composition keeps the order of the children and groups by
\* parentheses.  An And gives its parent one parenthesized fragment of its
\* children's conditions AND-joined in child order, an Or one fragment of
\* its condition-producing children, each in parentheses, OR-joined in
\* child order, and the arguments are the values in depth-first,
\* left-to-right order; And(Equal("a",1), Or(Equal("b",2), Equal("c",3)))
\* gives one AND group holding one OR group of two branches, arguments
\* [1, 2, 3].
C4_OrderPreserving ==
    /\ v.conditions = Fragments(v.fieldMap, visited)
    /\ v.args = ValuesOfAll(visited)
    /\ (Built /\ visited = <<C4_Example>>)
          => /\ query = BaseQuery \o C4_ExampleWhere(v.fieldMap)
             /\ args = <<1, 2, 3>>

C4_Witness ==
    /\ Built
    /\ visited = <<C4_Example>>
    /\ args = <<1, 2, 3>>

\* ------------------------------------------------------------------------
\* C2, C3
\* ------------------------------------------------------------------------
\* the specification accepted last, and the visitor as it was before
Last == visited[Len(visited)]

Prev == AcceptAll(NewVisitor(v.fieldMap), SubSeq(visited, 1, Len(visited) - 1))

\* the accumulator the children of an And are compiled into
Nested(specs) == AcceptAll(NewVisitor(v.fieldMap), specs)

\* the accumulator of its own one child of an Or is compiled into
Own(s) == Accept(NewVisitor(v.fieldMap), s)

\* the values of the Limit leaves and of the Offset leaves of a tree, in
\* depth-first, left-to-right order
RECURSIVE LeafNumbers(_, _), LeafNumbersAll(_, _)
LeafNumbers(kind, s) ==
    IF s.kind = kind THEN <<s.n>> ELSE LeafNumbersAll(kind, s.specs)

LeafNumbersAll(kind, specs) ==
    IF Len(specs) = 0 THEN <<>>
    ELSE LeafNumbers(kind, specs[1]) \o LeafNumbersAll(kind, Tail(specs))

\* the last of a sequence of strictly positive numbers, 0 when there is
\* none; holds of no value when one of the numbers is not positive
LastWins(numbers, value) ==
    (\A i \in 1..Len(numbers) : numbers[i] > 0)
        => value = (IF Len(numbers) = 0 THEN 0 ELSE numbers[Len(numbers)])

\* C2: when And(c1..cn) is visited, the limit (offset) of the parent is
\* replaced by the nested value only if that value is strictly positive: a
\* nested zero or absent value never clears a value already set, the last
\* applied of strictly positive values wins through any nesting,
\* And(Limit(10)) alone gives limit 10, and Limit(5) followed by an And
\* holding Limit(20) gives limit 20.
C2_AndMergesPositive ==
    /\ (Len(visited) > 0 /\ Last.kind = "And")
          => /\ v.limit = (IF Nested(Last.specs).limit > 0
                           THEN Nested(Last.specs).limit ELSE Prev.limit)
             /\ v.offset = (IF Nested(Last.specs).offset > 0
                            THEN Nested(Last.specs).offset ELSE Prev.offset)
    /\ LastWins(LeafNumbersAll("Limit", visited), v.limit)
    /\ LastWins(LeafNumbersAll("Offset", visited), v.offset)
    /\ visited = <<And(<<Limit(10)>>)>> => v.limit = 10
    /\ visited = <<Limit(5), And(<<Limit(20)>>)>> => v.limit = 20

C2_Witness ==
    /\ visited = <<Limit(5), And(<<Limit(20)>>)>>
    /\ v.limit = 20

\* the children of an Or whose own limit, whose own offset, is positive
PositiveLimits(specs) == {i \in 1..Len(specs) : Own(specs[i]).limit > 0}

PositiveOffsets(specs) == {i \in 1..Len(specs) : Own(specs[i]).offset > 0}

Max(S) == CHOOSE i \in S : \A j \in S : j <= i

\* the order-by clauses of the children of an Or, each compiled on its
\* own, in child order
RECURSIVE OwnOrders(_)
OwnOrders(specs) ==
    IF Len(specs) = 0 THEN <<>>
    ELSE Own(specs[1]).orderClauses \o OwnOrders(Tail(specs))

\* Or(c1..cn) hands the parent the limit (offset) of its last child whose
\* own limit (offset) is positive, keeps the parent's value when there is
\* none, and appends the order-by clauses of every child in child order
OrRule ==
    (Len(visited) > 0 /\ Last.kind = "Or")
       => /\ v.limit = (IF PositiveLimits(Last.specs) = {} THEN Prev.limit
                        ELSE Own(Last.specs[Max(PositiveLimits(Last.specs))]).limit)
          /\ v.offset = (IF PositiveOffsets(Last.specs) = {} THEN Prev.offset
                         ELSE Own(Last.specs[Max(PositiveOffsets(Last.specs))]).offset)
          /\ v.orderClauses = Prev.orderClauses \o OwnOrders(Last.specs)

\* a direct child that is a leaf of the kind with a value that is not
\* positive comes after a child whose own value is positive
ClearsAfter(kind, specs, positive) ==
    \E i \in positive : \E j \in (i + 1)..Len(specs) :
        specs[j].kind = kind /\ specs[j].n <= 0

\* C3 as stated: Or hands limit, offset and order-by up by the rule above,
\* and for every child list Or(c1..cn) and And(c1..cn) leave the parent
\* with the same limit, offset and order-by list.
C3_OrSameAsAnd ==
    /\ OrRule
    /\ (Len(visited) > 0 /\ Last.kind = "Or")
          => /\ v.limit = VisitAnd(Prev, Last.specs).limit
             /\ v.offset = VisitAnd(Prev, Last.specs).offset
             /\ v.orderClauses = VisitAnd(Prev, Last.specs).orderClauses

\* C3 as amended: Or hands limit, offset and order-by up by the rule above;
\* Or(c1..cn) and And(c1..cn) leave the parent with the same order-by
\* list, and with the same limit (offset) for every child list in which no
\* direct Limit (Offset) child with a value that is not positive comes
\* after a child whose own limit (offset) is positive.
C3_OrSameAsAndUnlessCleared ==
    /\ OrRule
    /\ (Len(visited) > 0 /\ Last.kind = "Or")
          => /\ v.orderClauses = VisitAnd(Prev, Last.specs).orderClauses
             /\ ~ClearsAfter("Limit", Last.specs, PositiveLimits(Last.specs))
                   => v.limit = VisitAnd(Prev, Last.specs).limit
             /\ ~ClearsAfter("Offset", Last.specs, PositiveOffsets(Last.specs))
                   => v.offset = VisitAnd(Prev, Last.specs).offset

C3_Witness ==
    /\ visited = <<Or(<<Limit(10), Limit(20)>>)>>
    /\ v.limit = 20
    /\ VisitAnd(Prev, Last.specs).limit = 20

\* ------------------------------------------------------------------------
\* C7
\* ------------------------------------------------------------------------
\* what one traversal of the tree on its own, with nothing else running,
\* returns
Isolated == BuildQuery(Accept(NewVisitor(TableA), shared), BaseQuery)

\* the addresses of the visitors a goroutine holds in its frames
Held(g) ==
    UNION {{stack[g][k].recv, stack[g][k].sub, stack[g][k].temp} : k \in 1..Len(stack[g])}
    \ {0}

\* the frame's nested accumulators are objects of their own
FreshNested(f) ==
    /\ f.fn \in {"VisitAnd", "VisitOr"} => f.sub # f.recv
    /\ f.temp # 0 => f.temp \notin {f.recv, f.sub}

\* C7: a tree is created once and traversed many times.  No step of a
\* traversal changes the tree, every And and Or visit works on nested
\* accumulators of its own that neither its parent nor another traversal
\* holds, and each of the goroutines that traverse one tree, their steps
\* interleaved in any way, gets the query text and the argument list that
\* one traversal on its own gets.
C7_TraversalsIndependent ==
    /\ [](\A g \in G : status[g] = "done" => out[g] = Isolated)
    /\ [](\A g \in G : \A k \in 1..Len(stack[g]) : FreshNested(stack[g][k]))
    /\ [](\A g, h \in G : g # h => Held(g) \cap Held(h) = {})
    /\ [][shared' = shared]_vars

C7_Witness ==
    /\ \A g \in G : status[g] = "done" /\ out[g] = Isolated
    /\ shared = And(<<Or(<<Equal(FieldA, 1)>>)>>)
    /\ Len(heap) = 4 * Goroutines

====
